---- MODULE Spec2Model ----
(***************************************************************************)
(* PonyfillBody of packages/node-fetch/src/Body.ts: one Body object, the   *)
(* calls made on it (text, json, buffer, arrayBuffer, blob, formData and   *)
(* the `body` accessor), the Node Readable it drains and, for formData(),  *)
(* the busboy decoder the Readable is piped into.                          *)
(*                                                                         *)
(* A call is one record of `calls`; the event handlers the code registers  *)
(* (Readable 'data'/'end'/'error', busboy 'field'/'file'/.../'close', file *)
(* stream 'limit'/'data'/'close') are operators on that record, applied by *)
(* the action of the event that invokes them.  Events that Node emits      *)
(* synchronously inside one write (busboy's 'field', 'file', '*Limit',     *)
(* 'error' and the file stream's 'limit') run inside ReadableData; events  *)
(* that are delivered on a later tick are actions of their own.            *)
(*                                                                         *)
(* fetchPonyfill of packages/node-fetch/src/fetch.ts, which dispatches a   *)
(* request to the reader of its scheme or to a network transport, is       *)
(* modelled at the end of the module with a specification of its own.      *)
(***************************************************************************)
EXTENDS Integers, Sequences, FiniteSets, TLC

VARIABLES
  bodyInit,       \* constructor argument (private bodyInit)
  options,        \* constructor argument: options.formDataLimits
  bodyType,       \* private bodyType
  contentType,    \* public contentType
  contentLength,  \* public contentLength
  bodyUsed,       \* public bodyUsed
  generatedBody,  \* private _generatedBody: NoBody or the stream instance
  factoryCalls,   \* instrumentation: invocations of _bodyFactory so far
  readable,       \* the Node Readable under the generated body
  calls,          \* the calls made so far, in call order
  libcurl,        \* globalThis.libcurl is set
  fetches         \* the calls of fetchPonyfill made so far, in call order

vars == <<bodyInit, options, bodyType, contentType, contentLength, bodyUsed,
          generatedBody, factoryCalls, readable, calls, libcurl, fetches>>

----------------------------------------------------------------------------
\* Bounds of the model.

\* Longest in-memory content (bytes, or UTF-16 code units of a text).
MaxLen == 2
\* Most calls of fetchPonyfill.
MaxFetches == 2
\* Most chunks (or multipart parts) a source stream carries.
MaxChunks == 2
\* Most calls made on one Body.
MaxCalls == 2
\* Most formData() calls among them.
MaxForms == 1

\* Bytes of in-memory sources: "A", the two bytes of U+00E9, an ill-formed byte.
ByteAlphabet == {65, 195, 169, 255}
\* Code units of text sources: "A", U+00E9, the surrogate pair of U+1F600.
UnitAlphabet == {65, 233, 55357, 56832}
\* Chunks of a raw source stream: "1" and "A".
ChunkAlphabet == {<<49>>, <<65>>}

SeqsUpTo(S, n) == UNION {[1..k -> S] : k \in 0..n}

RECURSIVE Concat(_)
\* Buffer.concat(chunks)
Concat(chunks) ==
  IF chunks = <<>> THEN <<>> ELSE Head(chunks) \o Concat(Tail(chunks))

----------------------------------------------------------------------------
\* UTF-8, as Buffer.from(string) encodes and buffer.toString('utf-8') decodes.

IsHigh(u) == u >= 55296 /\ u <= 56319
IsLow(u) == u >= 56320 /\ u <= 57343

EncodeCodePoint(cp) ==
  IF cp < 128 THEN <<cp>>
  ELSE IF cp < 2048 THEN <<192 + (cp \div 64), 128 + (cp % 64)>>
  ELSE IF cp < 65536
    THEN <<224 + (cp \div 4096), 128 + ((cp \div 64) % 64), 128 + (cp % 64)>>
  ELSE <<240 + (cp \div 262144), 128 + ((cp \div 4096) % 64),
         128 + ((cp \div 64) % 64), 128 + (cp % 64)>>

RECURSIVE Utf8Encode(_)
\* Buffer.from(string): a surrogate pair is one code point, a lone surrogate
\* is encoded as U+FFFD.
Utf8Encode(s) ==
  IF s = <<>> THEN <<>>
  ELSE IF IsHigh(s[1]) /\ Len(s) >= 2 /\ IsLow(s[2])
    THEN EncodeCodePoint(65536 + (s[1] - 55296) * 1024 + (s[2] - 56320))
         \o Utf8Encode(SubSeq(s, 3, Len(s)))
  ELSE IF IsHigh(s[1]) \/ IsLow(s[1])
    THEN <<239, 191, 189>> \o Utf8Encode(Tail(s))
  ELSE EncodeCodePoint(s[1]) \o Utf8Encode(Tail(s))

IsCont(x) == x >= 128 /\ x <= 191
SecondLo(b0) == IF b0 = 224 THEN 160 ELSE IF b0 = 240 THEN 144 ELSE 128
SecondHi(b0) == IF b0 = 237 THEN 159 ELSE IF b0 = 244 THEN 143 ELSE 191

\* Length of the sequence a lead byte announces; 0 for a byte that leads none.
SeqLen(b0) ==
  IF b0 < 128 THEN 1
  ELSE IF b0 >= 194 /\ b0 <= 223 THEN 2
  ELSE IF b0 >= 224 /\ b0 <= 239 THEN 3
  ELSE IF b0 >= 240 /\ b0 <= 244 THEN 4
  ELSE 0

\* Bytes of the maximal well-formed prefix of the sequence starting at b[1]
\* (at least one byte is always consumed).
ValidPrefix(b) ==
  LET n == SeqLen(b[1]) IN
  IF n <= 1 THEN 1
  ELSE IF Len(b) < 2 \/ b[2] < SecondLo(b[1]) \/ b[2] > SecondHi(b[1]) THEN 1
  ELSE IF n = 2 THEN 2
  ELSE IF Len(b) < 3 \/ ~IsCont(b[3]) THEN 2
  ELSE IF n = 3 THEN 3
  ELSE IF Len(b) < 4 \/ ~IsCont(b[4]) THEN 3
  ELSE 4

CompleteSeq(b) == SeqLen(b[1]) >= 1 /\ ValidPrefix(b) = SeqLen(b[1])

CodePointOf(b) ==
  LET n == SeqLen(b[1]) IN
  IF n = 1 THEN b[1]
  ELSE IF n = 2 THEN (b[1] - 192) * 64 + (b[2] - 128)
  ELSE IF n = 3 THEN (b[1] - 224) * 4096 + (b[2] - 128) * 64 + (b[3] - 128)
  ELSE (b[1] - 240) * 262144 + (b[2] - 128) * 4096 + (b[3] - 128) * 64
       + (b[4] - 128)

ToUnits(cp) ==
  IF cp < 65536 THEN <<cp>>
  ELSE <<55296 + ((cp - 65536) \div 1024), 56320 + ((cp - 65536) % 1024)>>

RECURSIVE Utf8Decode(_)
\* buffer.toString('utf-8'): every ill-formed subsequence becomes U+FFFD.
Utf8Decode(b) ==
  IF b = <<>> THEN <<>>
  ELSE (IF CompleteSeq(b) THEN ToUnits(CodePointOf(b)) ELSE <<65533>>)
       \o Utf8Decode(SubSeq(b, ValidPrefix(b) + 1, Len(b)))

\* JSON.parse on the texts of the model ("1" and "A" only): a text parses
\* exactly when it is a non-empty run of the digit "1".
JsonParses(text) == text # <<>> /\ \A i \in 1..Len(text) : text[i] = 49

----------------------------------------------------------------------------
\* The body initializer and its classification.

NoLength == -1          \* contentLength: null
NoBody == 0             \* _generatedBody: null
TheStream == 1          \* the one stream instance a Body ever generates

NoType == "undefined"
NoContentType == "null"
TextPlain == "text/plain;charset=UTF-8"
Multipart == "multipart/form-data; boundary=x"
UrlEncoded == "application/x-www-form-urlencoded;charset=UTF-8"
OctetStream == "application/octet-stream"

InMemoryKinds == {"string", "Buffer", "Uint8Array", "ArrayBuffer"}
StreamKinds == {"ReadableStream", "Readable"}
\* A PonyfillBlob and a Blob of the platform.
BlobKinds == {"Blob", "NativeBlob"}
\* A parameter set (URLSearchParams) and a form-data set.
CollectionKinds == {"URLSearchParams", "FormData"}

\* An initializer: its kind; str, the code units of a text; buf/off/len, the
\* backing ArrayBuffer, byteOffset and byteLength of a byte source (of a blob,
\* its bytes and size); type, the type of a blob; items, the name/value pairs
\* of a parameter set or form-data set, or the chunks of an async iterable.
MkInit(kind, str, buf, off) ==
  [kind |-> kind, str |-> str, buf |-> buf, off |-> off,
   len |-> Len(buf) - off, type |-> "", items |-> <<>>]

NullInit == MkInit("null", <<>>, <<>>, 0)

TextInits(units, n) == {MkInit("string", s, <<>>, 0) : s \in SeqsUpTo(units, n)}

\* A Buffer or Uint8Array is a view: with pad = 1 it starts one byte into its
\* backing ArrayBuffer (as a pooled Buffer does).
ViewInits(bytes, n) ==
  {MkInit(k, <<>>, IF pad = 1 THEN <<0>> \o b ELSE b, pad) :
     k \in {"Buffer", "Uint8Array"}, b \in SeqsUpTo(bytes, n), pad \in {0, 1}}

ArrayBufferInits(bytes, n) ==
  {MkInit("ArrayBuffer", <<>>, b, 0) : b \in SeqsUpTo(bytes, n)}

StreamInits == {MkInit(k, <<>>, <<>>, 0) : k \in StreamKinds}

\* An Int8Array: a view that is no Uint8Array.
TypedArrayInits(bytes, n) ==
  {MkInit("Int8Array", <<>>, b, 0) : b \in SeqsUpTo(bytes, n)}

\* Blobs of a declared type.
BlobInits(bytes, n) ==
  {[MkInit(k, <<>>, b, 0) EXCEPT !.type = OctetStream] :
     k \in BlobKinds, b \in SeqsUpTo(bytes, n)}

Pair(name, value) == [name |-> name, value |-> value]
\* The pairs a=1 and b=2.
PairAlphabet == {Pair(<<97>>, <<49>>), Pair(<<98>>, <<50>>)}

\* Parameter sets and form-data sets of up to n pairs.
CollectionInits(n) ==
  {[MkInit(k, <<>>, <<>>, 0) EXCEPT !.items = ps] :
     k \in CollectionKinds, ps \in SeqsUpTo(PairAlphabet, n)}

\* Async iterables of up to n chunks.
IterableInits(chunks, n) ==
  {[MkInit("AsyncIterable", <<>>, <<>>, 0) EXCEPT !.items = cs] :
     cs \in SeqsUpTo(chunks, n)}

\* The bytes a view shows: buf[byteOffset .. byteOffset + byteLength).
ViewBytes(init) == SubSeq(init.buf, init.off + 1, init.off + init.len)

\* The probes of processBodyInit, in the order it makes them (Body.ts 288,
\* 295, 308, 321, 329, 339, 352, 365, 379, 390, 401, 413, 425).
ProbeOrder ==
  <<"null", "string", "Buffer", "PonyfillReadableStream", "PonyfillBlob",
    "Uint8Array", "buffer", "ArrayBuffer", "Readable", "stream", "sort",
    "forEach", "iterator">>

\* The probes an initializer satisfies.  A Buffer is a Uint8Array; every
\* typed array has `buffer`, `sort`, `forEach` and an iterator; a
\* PonyfillBlob has its `buffer()` method and `stream()`; a Readable has
\* `forEach` and an async iterator; a parameter set has `sort`, `forEach` and
\* an iterator; a form-data set has `forEach` and an iterator.
Probes(init) ==
  IF init.kind = "null" THEN {"null"}
  ELSE IF init.kind = "string" THEN {"string", "iterator"}
  ELSE IF init.kind = "Buffer"
    THEN {"Buffer", "Uint8Array", "buffer", "sort", "forEach", "iterator"}
  ELSE IF init.kind = "Uint8Array"
    THEN {"Uint8Array", "buffer", "sort", "forEach", "iterator"}
  ELSE IF init.kind = "Int8Array" THEN {"buffer", "sort", "forEach", "iterator"}
  ELSE IF init.kind = "ArrayBuffer" THEN {"ArrayBuffer"}
  ELSE IF init.kind = "ReadableStream" THEN {"PonyfillReadableStream", "iterator"}
  ELSE IF init.kind = "Readable" THEN {"Readable", "forEach", "iterator"}
  ELSE IF init.kind = "Blob" THEN {"PonyfillBlob", "buffer", "stream"}
  ELSE IF init.kind = "NativeBlob" THEN {"stream"}
  ELSE IF init.kind = "URLSearchParams" THEN {"sort", "forEach", "iterator"}
  ELSE IF init.kind = "FormData" THEN {"forEach", "iterator"}
  ELSE {"iterator"}

Class(bodyType_, contentType_, contentLength_) ==
  [bodyType |-> bodyType_, contentType |-> contentType_,
   contentLength |-> contentLength_]

\* What the branch behind a probe returns (its bodyFactory apart).
ClassOf(probe, init) ==
  IF probe = "null" THEN Class(NoType, NoContentType, NoLength)
  ELSE IF probe = "string"
    THEN Class("String", TextPlain, Len(Utf8Encode(init.str)))
  ELSE IF probe = "Buffer" THEN Class("Buffer", NoContentType, init.len)
  ELSE IF probe = "PonyfillReadableStream"
    THEN Class("ReadableStream", NoContentType, NoLength)
  ELSE IF probe = "PonyfillBlob" THEN Class("Blob", init.type, init.len)
  ELSE IF probe = "Uint8Array" THEN Class("Uint8Array", NoContentType, init.len)
  ELSE IF probe = "buffer" THEN Class(NoType, NoContentType, init.len)
  ELSE IF probe = "ArrayBuffer" THEN Class("ArrayBuffer", NoContentType, init.len)
  ELSE IF probe = "Readable" THEN Class("Readable", NoContentType, NoLength)
  ELSE IF probe = "stream" THEN Class(NoType, init.type, init.len)
  ELSE IF probe = "sort" THEN Class("String", UrlEncoded, NoLength)
  ELSE IF probe = "forEach" THEN Class(NoType, Multipart, NoLength)
  ELSE Class(NoType, NoContentType, NoLength)

\* processBodyInit probing `forEach` before `sort`.
processBodyInit_ForEachFirst(init) ==
  LET P == Probes(init) IN
  IF "null" \in P THEN ClassOf("null", init)
  ELSE IF "string" \in P THEN ClassOf("string", init)
  ELSE IF "Buffer" \in P THEN ClassOf("Buffer", init)
  ELSE IF "PonyfillReadableStream" \in P
    THEN ClassOf("PonyfillReadableStream", init)
  ELSE IF "PonyfillBlob" \in P THEN ClassOf("PonyfillBlob", init)
  ELSE IF "Uint8Array" \in P THEN ClassOf("Uint8Array", init)
  ELSE IF "buffer" \in P THEN ClassOf("buffer", init)
  ELSE IF "ArrayBuffer" \in P THEN ClassOf("ArrayBuffer", init)
  ELSE IF "Readable" \in P THEN ClassOf("Readable", init)
  ELSE IF "stream" \in P THEN ClassOf("stream", init)
  ELSE IF "forEach" \in P THEN ClassOf("forEach", init)
  ELSE IF "sort" \in P THEN ClassOf("sort", init)
  ELSE ClassOf("iterator", init)

\* processBodyInit (Body.ts 282-437): the first probe that succeeds decides.
\* (A value that satisfies no probe makes the constructor throw, Body.ts 436;
\* every initializer of BodyPonyfillInit satisfies one.)
processBodyInit(init) ==
  LET P == Probes(init) IN
  IF "null" \in P THEN ClassOf("null", init)
  ELSE IF "string" \in P THEN ClassOf("string", init)
  ELSE IF "Buffer" \in P THEN ClassOf("Buffer", init)
  ELSE IF "PonyfillReadableStream" \in P
    THEN ClassOf("PonyfillReadableStream", init)
  ELSE IF "PonyfillBlob" \in P THEN ClassOf("PonyfillBlob", init)
  ELSE IF "Uint8Array" \in P THEN ClassOf("Uint8Array", init)
  ELSE IF "buffer" \in P THEN ClassOf("buffer", init)
  ELSE IF "ArrayBuffer" \in P THEN ClassOf("ArrayBuffer", init)
  ELSE IF "Readable" \in P THEN ClassOf("Readable", init)
  ELSE IF "stream" \in P THEN ClassOf("stream", init)
  ELSE IF "sort" \in P THEN ClassOf("sort", init)
  ELSE IF "forEach" \in P THEN ClassOf("forEach", init)
  ELSE ClassOf("iterator", init)

\* A bodyFactory that returns a stream for an absent initializer too.
bodyFactory_NeverNull(init) == TheStream

\* What the bodyFactory of processBodyInit returns: null for an absent
\* initializer, a stream otherwise.
bodyFactory(init) == IF init.kind = "null" THEN NoBody ELSE TheStream

\* stream() of a blob (Blob.js for a PonyfillBlob): its bytes in one chunk.
BlobStream(init) == <<init.buf>>

\* The chunks of the Readable the factory builds over an in-memory source:
\* Readable.from(buffer) emits the buffer as one chunk, Readable.from over a
\* plain Uint8Array iterates it.
FactoryChunks(init) ==
  IF init.kind = "string" THEN <<Utf8Encode(init.str)>>
  ELSE IF init.kind = "Uint8Array"
    THEN [i \in 1..init.len |-> <<ViewBytes(init)[i]>>]
  ELSE IF init.kind \in {"Buffer", "Int8Array"} THEN <<ViewBytes(init)>>
  ELSE IF init.kind \in BlobKinds THEN BlobStream(init)
  ELSE <<init.buf>>

----------------------------------------------------------------------------
\* Items a source stream carries.  A raw chunk is its bytes; a chunk of a
\* multipart body carries one part (a field, a file, or ill-formed syntax).

Item(t, b, name, value) == [t |-> t, b |-> b, name |-> name, value |-> value]
Raw(b) == Item("raw", b, <<>>, <<>>)
\* A part's bytes on the wire: a boundary byte, its name, its content.
Part(t, name, value) == Item(t, <<45>> \o name \o Concat(value), name, value)

RawWires == SeqsUpTo({Raw(b) : b \in ChunkAlphabet}, MaxChunks)

RECURSIVE Serialize(_)
\* URLSearchParams.toString(): name=value pairs joined by "&".
Serialize(pairs) ==
  IF pairs = <<>> THEN <<>>
  ELSE Head(pairs).name \o <<61>> \o Head(pairs).value
       \o (IF Len(pairs) > 1 THEN <<38>> ELSE <<>>) \o Serialize(Tail(pairs))

\* getStreamFromFormData of FormData.js: the set as multipart, one part per
\* entry.
getStreamFromFormData(items) ==
  [i \in 1..Len(items) |-> Part("field", items[i].name, <<items[i].value>>)]

\* What the Readable of the factory's stream emits.  A parameter set is
\* emitted as its serialization in one chunk (Body.ts 408), which carries
\* its pairs; a form-data set as getStreamFromFormData serializes it;
\* Readable.from over an async iterable emits its chunks; every other source
\* is emitted as the bytes of FactoryChunks.
FactoryItems(init) ==
  IF init.kind = "URLSearchParams"
    THEN <<Item("params", Serialize(init.items), <<>>, init.items)>>
  ELSE IF init.kind = "FormData" THEN getStreamFromFormData(init.items)
  ELSE IF init.kind = "AsyncIterable"
    THEN [i \in 1..Len(init.items) |-> Raw(init.items[i])]
  ELSE [i \in 1..Len(FactoryChunks(init)) |-> Raw(FactoryChunks(init)[i])]

NoReadable == [state |-> "none", todo |-> <<>>]

----------------------------------------------------------------------------
\* FormDataLimits (Body.ts 26-41); Unset is a limit whose key is absent,
\* Undefined one whose key is present with the value undefined.

Unset == -1
Undefined == -2
\* busboy takes a limit that is a number and its default otherwise.
IsNumber(limit) == limit >= 0
LimitNames ==
  {"fieldNameSize", "fieldSize", "fields", "fileSize", "files", "parts"}
NoLimits == [n \in LimitNames |-> Unset]

\* The limits a Body is constructed with, and those a formData() call gives.
SizeLimits ==
  [NoLimits EXCEPT !.fieldNameSize = 2, !.fieldSize = 2, !.fileSize = 1]
CountLimits == [NoLimits EXCEPT !.fields = 1, !.files = 1]
CtorChoices == {NoLimits, SizeLimits, CountLimits}
OptChoices ==
  {NoLimits, [NoLimits EXCEPT !.parts = 1],
   [NoLimits EXCEPT !.fieldSize = Undefined]}

\* Parts of a multipart body: fields "a"="b", "name"="ccc", "a"="ccc", a file
\* named "a" of two one-byte chunks, and ill-formed syntax.
PartAlphabet ==
  {Part("field", <<97>>, <<<<98>>>>),
   Part("field", <<110, 97, 109, 101>>, <<<<99, 99, 99>>>>),
   Part("field", <<97>>, <<<<99, 99, 99>>>>),
   Part("file", <<97>>, <<<<120>>, <<121>>>>),
   Part("bad", <<>>, <<>>)}
PartWires == SeqsUpTo(PartAlphabet, MaxChunks)

----------------------------------------------------------------------------
\* A call on the Body.  st/val/err are the state of the promise it returned
\* (for `body`, of the value it returned).  The other fields are the closure
\* of the call: the chunks array and listeners of _collectChunksFromReadable,
\* the busboy instance, the FormData being built and the file streams of
\* formData().  drain, got and seen record what the call did when it was
\* made: whether it attached itself to the stream, the instance generateBody
\* gave it (-1: it did not ask), and the earlier calls already resolved; log
\* records the events the decoder and its file streams have emitted.  obj
\* tells that the value is the initializer object itself; opts is the
\* formDataLimits argument of a formData() call.

NewCall(op) ==
  [op |-> op, st |-> "pending", val |-> <<>>, err |-> "",
   chunks |-> <<>>, listening |-> FALSE,
   bb |-> "none", limits |-> NoLimits,
   nParts |-> 0, nFields |-> 0, nFiles |-> 0,
   hitParts |-> FALSE, hitFields |-> FALSE, hitFiles |-> FALSE,
   files |-> <<>>, formData |-> <<>>, log |-> <<>>,
   drain |-> FALSE, got |-> -1, obj |-> FALSE, opts |-> NoLimits,
   seen |-> {i \in 1..Len(calls) : calls[i].st = "resolved"}]

\* resolve(v) / reject(e) of a promise: only the first settles it.
resolve(call, v) ==
  IF call.st = "pending" THEN [call EXCEPT !.st = "resolved", !.val = v]
  ELSE call
\* A reject that replaces an earlier rejection.
reject_LastWins(call, e) ==
  IF call.st \in {"pending", "rejected"}
    THEN [call EXCEPT !.st = "rejected", !.err = e]
  ELSE call
reject(call, e) ==
  IF call.st = "pending" THEN [call EXCEPT !.st = "rejected", !.err = e]
  ELSE call

----------------------------------------------------------------------------
\* generateBody (Body.ts 68-75).

\* The instance generateBody returns.
generateBody ==
  IF generatedBody # NoBody THEN generatedBody ELSE bodyFactory(bodyInit)

\* Whether generateBody invokes the factory.
InvokesFactory == generatedBody = NoBody

\* The Readable under the body generateBody returns: a stream source is its
\* own, an absent source has none, every other source gets its Readable from
\* the factory.
GeneratedReadable ==
  IF InvokesFactory /\ bodyInit.kind \notin StreamKinds \cup {"null"}
    THEN [state |-> "paused", todo |-> FactoryItems(bodyInit)]
  ELSE readable

\* readable.on('data', ...) and readable.pipe(...) switch a paused Readable
\* to flowing; on a Readable that ended or failed they change nothing.
Resume(r) == IF r.state = "paused" THEN [r EXCEPT !.state = "flowing"] ELSE r

Generated ==
  /\ generatedBody' = generateBody
  /\ factoryCalls' = factoryCalls + (IF InvokesFactory THEN 1 ELSE 0)

----------------------------------------------------------------------------
\* The in-memory paths of the Materialization API.

InMemory(type) == type \in {"String", "Buffer", "Uint8Array", "ArrayBuffer"}

\* buffer() reading a Uint8Array from the start of its backing ArrayBuffer.
bufferOf_IgnoresByteOffset(init, type) ==
  IF type = "Buffer" THEN ViewBytes(init)
  ELSE IF type = "String" THEN Utf8Encode(init.str)
  ELSE IF type = "Uint8Array" THEN SubSeq(init.buf, 1, init.len)
  ELSE init.buf

\* buffer() (Body.ts 240-263); a PonyfillBlob gives its bytes.
bufferOf(init, type) ==
  IF type = "Buffer" THEN ViewBytes(init)
  ELSE IF type = "String" THEN Utf8Encode(init.str)
  ELSE IF type = "Uint8Array" THEN ViewBytes(init)
  ELSE init.buf

\* text() (Body.ts 273-279); the value is a string (code units).
textOf(init, type) ==
  IF type = "String" THEN init.str ELSE Utf8Decode(bufferOf(init, type))

\* uint8ArrayToArrayBuffer of utils.js
uint8ArrayToArrayBuffer(buf, off, len) == SubSeq(buf, off + 1, off + len)

\* arrayBuffer() (Body.ts 104-120); a PonyfillBlob gives its bytes.
arrayBufferOf(init, type) ==
  IF type \in {"ArrayBuffer", "Blob"} THEN init.buf
  ELSE IF type \in {"Uint8Array", "Buffer"}
    THEN uint8ArrayToArrayBuffer(init.buf, init.off, init.len)
  ELSE LET buffer == Utf8Encode(init.str) IN
       uint8ArrayToArrayBuffer(buffer, 0, Len(buffer))

\* new PonyfillBlob(parts).arrayBuffer() of Blob.js: the parts' bytes, a
\* text part encoded as UTF-8.
BlobArrayBuffer(parts) == Concat(parts)

\* blob() (Body.ts 146-165), as the bytes of the blob it returns.
blobOf(init, type) ==
  IF type = "String" THEN BlobArrayBuffer(<<Utf8Encode(init.str)>>)
  ELSE IF type \in {"Buffer", "Uint8Array"}
    THEN BlobArrayBuffer(<<ViewBytes(init)>>)
  ELSE BlobArrayBuffer(<<init.buf>>)

\* What a draining call resolves or rejects with once
\* _collectChunksFromReadable has resolved with `chunks`.
Finish(call, chunks) ==
  IF call.op = "buffer" THEN resolve(call, Concat(chunks))
  ELSE IF call.op = "text" THEN resolve(call, Utf8Decode(Concat(chunks)))
  ELSE IF call.op = "json"
    THEN IF JsonParses(Utf8Decode(Concat(chunks)))
           THEN resolve(call, Utf8Decode(Concat(chunks)))
           ELSE reject(call, "SyntaxError")
  ELSE resolve(call, BlobArrayBuffer(chunks))

\* _collectChunksFromReadable (Body.ts 125-143) on behalf of `op`.
collectChunksFromReadable(op) ==
  /\ Generated
  /\ IF generateBody = NoBody
       THEN /\ readable' = readable
            /\ calls' = Append(calls,
                 Finish([NewCall(op) EXCEPT !.got = NoBody], <<>>))
       ELSE /\ readable' = Resume(GeneratedReadable)
            /\ calls' = Append(calls,
                 [NewCall(op) EXCEPT !.listening = TRUE, !.drain = TRUE,
                                     !.got = generateBody])

Frame == UNCHANGED <<bodyInit, options, bodyType, contentType, contentLength,
                     bodyUsed, libcurl, fetches>>

\* No body type answered from the initializer.
FastPath_None(type) == FALSE

\* The body types a method answers from the initializer.
FastPath(type) == InMemory(type) \/ type = "Blob"

\* Whether `this.bodyInit as string` is no string: the parameter set that
\* processBodyInit gave the body type String (Body.ts 404).
NotAString == bodyType = "String" /\ bodyInit.kind # "string"

\* What a method answers from the initializer.  On a parameter set text()
\* returns the object itself, Buffer.from(object) throws a TypeError,
\* JSON.parse and the blob take its serialization.
FastAnswer(op) ==
  LET new == NewCall(op)
      asText == Serialize(bodyInit.items)
  IN
  IF op = "buffer"
    THEN IF NotAString THEN reject(new, "TypeError")
         ELSE resolve(new, bufferOf(bodyInit, bodyType))
  ELSE IF op = "text"
    THEN IF NotAString THEN [resolve(new, asText) EXCEPT !.obj = TRUE]
         ELSE resolve(new, textOf(bodyInit, bodyType))
  ELSE IF op = "json"
    THEN IF NotAString THEN reject(new, "SyntaxError")
         ELSE IF JsonParses(textOf(bodyInit, bodyType))
           THEN resolve(new, textOf(bodyInit, bodyType))
         ELSE reject(new, "SyntaxError")
  ELSE IF op = "arrayBuffer"
    THEN IF NotAString THEN reject(new, "TypeError")
         ELSE resolve(new, arrayBufferOf(bodyInit, bodyType))
  ELSE IF NotAString THEN resolve(new, BlobArrayBuffer(<<asText>>))
  ELSE resolve(new, blobOf(bodyInit, bodyType))

\* A call answered from the initializer: no stream is touched.
Answer(call) ==
  /\ calls' = Append(calls, call)
  /\ UNCHANGED <<generatedBody, factoryCalls, readable>>

CallBuffer ==
  /\ Len(calls) < MaxCalls
  /\ IF FastPath(bodyType)
       THEN Answer(FastAnswer("buffer"))
       ELSE collectChunksFromReadable("buffer")
  /\ Frame

CallText ==
  /\ Len(calls) < MaxCalls
  /\ IF FastPath(bodyType)
       THEN Answer(FastAnswer("text"))
       ELSE collectChunksFromReadable("text")
  /\ Frame

CallJson ==
  /\ Len(calls) < MaxCalls
  /\ IF FastPath(bodyType)
       THEN Answer(FastAnswer("json"))
       ELSE collectChunksFromReadable("json")
  /\ Frame

CallArrayBuffer ==
  /\ Len(calls) < MaxCalls
  /\ IF FastPath(bodyType)
       THEN Answer(FastAnswer("arrayBuffer"))
       ELSE collectChunksFromReadable("arrayBuffer")
  /\ Frame

CallBlob ==
  /\ Len(calls) < MaxCalls
  /\ IF FastPath(bodyType)
       THEN Answer(FastAnswer("blob"))
       ELSE collectChunksFromReadable("blob")
  /\ Frame

\* get body (Body.ts 77-102): the value is the instance behind the proxy.
GetBody ==
  /\ Len(calls) < MaxCalls
  /\ Generated
  /\ readable' = GeneratedReadable
  /\ calls' = Append(calls,
       [resolve(NewCall("body"), <<generateBody>>) EXCEPT !.got = generateBody])
  /\ Frame

----------------------------------------------------------------------------
\* formData(): the FormData being built, the busboy decoder, its handlers.

\* An entry of a FormData: a string value is one chunk of characters, a file
\* value the chunks of the file.
Entry(name, isFile, value) == [name |-> name, isFile |-> isFile, value |-> value]

\* PonyfillFormData.set of FormData.js: the entry takes the place of the
\* first entry of that name and every other entry of that name is dropped;
\* with no such entry it is appended.
FormDataSet(fd, e) ==
  IF \E i \in 1..Len(fd) : fd[i].name = e.name
    THEN LET first == CHOOSE i \in 1..Len(fd) :
                        /\ fd[i].name = e.name
                        /\ \A j \in 1..(i - 1) : fd[j].name # e.name
         IN SelectSeq([i \in 1..Len(fd) |-> IF i = first THEN e ELSE fd[i]],
                      LAMBDA x : x = e \/ x.name # e.name)
  ELSE Append(fd, e)

\* A merge in which the limits of the constructor take precedence.
MergeLimits_CtorWins(ctor, perCall) ==
  [n \in LimitNames |-> IF ctor[n] # Unset THEN ctor[n] ELSE perCall[n]]

\* { ...this.options.formDataLimits, ...opts?.formDataLimits } (Body.ts
\* 181-184): a key of the per-call limits, whatever its value, replaces the
\* key of the constructor's.
MergeLimits(ctor, perCall) ==
  [n \in LimitNames |-> IF perCall[n] # Unset THEN perCall[n] ELSE ctor[n]]

\* The 'field' handler without its check of nameTruncated.
OnField_NoNameCheck(call, name, value, nameTruncated, valueTruncated) ==
  LET c2 == IF valueTruncated THEN reject(call, "FieldSize") ELSE call
  IN [c2 EXCEPT !.formData = FormDataSet(@, Entry(name, FALSE, <<value>>))]

\* bb.on('field', ...) (Body.ts 193-201)
OnField(call, name, value, nameTruncated, valueTruncated) ==
  LET c1 == IF nameTruncated THEN reject(call, "FieldNameSize") ELSE call
      c2 == IF valueTruncated THEN reject(c1, "FieldSize") ELSE c1
  IN [c2 EXCEPT !.formData = FormDataSet(@, Entry(name, FALSE, <<value>>))]

\* bb.on('fieldsLimit', ...) (Body.ts 202-204)
OnFieldsLimit(call) == reject(call, "Fields")

\* bb.on('file', ...) (Body.ts 205-223): a chunks array and three listeners
\* on the file stream; `pushed` is what busboy has pushed into the stream.
OnFile(call, name, pushed, truncated) ==
  [call EXCEPT !.files = Append(@,
     [name |-> name, todo |-> pushed, chunks |-> <<>>,
      truncated |-> truncated, closed |-> FALSE])]

\* The file stream without a 'limit' listener.
OnFileLimit_NotHandled(call) == call

\* fileStream.on('limit', ...) (Body.ts 209-211)
OnFileLimit(call) == reject(call, "FileSize")

\* fileStream.on('data', ...) (Body.ts 212-214)
OnFileData(call, f) ==
  [call EXCEPT !.files[f].chunks = Append(@, Head(call.files[f].todo)),
               !.files[f].todo = Tail(@)]

\* A 'close' handler of the file stream that commits no entry.
OnFileClose_NotCommitted(call, f) == [call EXCEPT !.files[f].closed = TRUE]

\* fileStream.on('close', ...) (Body.ts 215-221)
OnFileClose(call, f) ==
  LET c1 == IF call.files[f].truncated THEN reject(call, "FileSize") ELSE call
  IN [c1 EXCEPT !.files[f].closed = TRUE,
                !.formData = FormDataSet(@,
                   Entry(call.files[f].name, TRUE, call.files[f].chunks))]

\* bb.on('filesLimit', ...) (Body.ts 224-226)
OnFilesLimit(call) == reject(call, "Files")

\* bb.on('partsLimit', ...) (Body.ts 227-229)
OnPartsLimit(call) == reject(call, "Parts")

\* bb.on('close', ...) (Body.ts 230-232); the value is the FormData itself.
OnClose(call) == resolve(call, <<>>)

\* bb.on('error', ...) (Body.ts 233-235)
OnBusboyError(call) == reject(call, "MalformedMultipart")

\* The event log of a call: the event and the part name it carried.
Log(call, ev, name) ==
  [call EXCEPT !.log = Append(@, [ev |-> ev, name |-> name])]

FieldEvent(nameTruncated, valueTruncated) ==
  IF nameTruncated /\ valueTruncated THEN "fieldNameValue"
  ELSE IF nameTruncated THEN "fieldName"
  ELSE IF valueTruncated THEN "fieldValue"
  ELSE "field"

\* busboy: a count limit is reached when as many parts as it allows were taken.
AtLimit(n, limit) == IsNumber(limit) /\ n >= limit
\* busboy: a size limit (with its default when unset) is exceeded.
Exceeds(size, limit, default) ==
  size > (IF IsNumber(limit) THEN limit ELSE default)
Truncated(x, limit, default) ==
  IF Exceeds(Len(x), limit, default)
    THEN SubSeq(x, 1, IF IsNumber(limit) THEN limit ELSE default) ELSE x

\* busboy, given one part by bb.write: the events it emits before write
\* returns.  After 'partsLimit' nothing is emitted; a part over a count limit
\* is skipped and the limit event is emitted once; a field is emitted with
\* its name and value cut to fieldNameSize and fieldSize; a file is emitted
\* with the chunks up to fileSize pushed, and 'limit' if any were cut.  A pair
\* of a URL-encoded body is a field that the parts limit does not count.
BusboyPart(call, part) ==
  IF call.hitParts THEN call
  ELSE IF part.t # "pair" /\ AtLimit(call.nParts, call.limits.parts)
    THEN OnPartsLimit(Log([call EXCEPT !.hitParts = TRUE], "partsLimit", <<>>))
  ELSE LET c == [call EXCEPT !.nParts = @ + 1] IN
    IF part.t = "file"
      THEN IF AtLimit(c.nFiles, c.limits.files)
             THEN IF c.hitFiles THEN c
                  ELSE OnFilesLimit(
                         Log([c EXCEPT !.hitFiles = TRUE], "filesLimit", <<>>))
           ELSE LET over == IsNumber(c.limits.fileSize)
                            /\ Len(part.value) > c.limits.fileSize
                    pushed == IF over
                                THEN SubSeq(part.value, 1, c.limits.fileSize)
                                ELSE part.value
                    d == OnFile(Log([c EXCEPT !.nFiles = @ + 1],
                                    "file", part.name),
                                part.name, pushed, over)
                IN IF over THEN OnFileLimit(Log(d, "fileLimit", part.name))
                   ELSE d
    ELSE IF AtLimit(c.nFields, c.limits.fields)
           THEN IF c.hitFields THEN c
                ELSE OnFieldsLimit(
                       Log([c EXCEPT !.hitFields = TRUE], "fieldsLimit", <<>>))
    ELSE LET nameTruncated == Exceeds(Len(part.name), c.limits.fieldNameSize, 100)
             valueTruncated ==
               Exceeds(Len(part.value[1]), c.limits.fieldSize, 1048576)
             name == Truncated(part.name, c.limits.fieldNameSize, 100)
         IN OnField(Log([c EXCEPT !.nFields = @ + 1],
                        FieldEvent(nameTruncated, valueTruncated), name),
                    name,
                    Truncated(part.value[1], c.limits.fieldSize, 1048576),
                    nameTruncated, valueTruncated)

RECURSIVE BusboyPairs(_, _)
\* busboy, given a chunk of a URL-encoded body: a 'field' for every pair.
BusboyPairs(call, pairs) ==
  IF pairs = <<>> THEN call
  ELSE BusboyPairs(
         BusboyPart(call, Part("pair", Head(pairs).name, <<Head(pairs).value>>)),
         Tail(pairs))

\* readable.pipe(bb) (Body.ts 236): a chunk of the source is written to the
\* decoder, which emits what it parsed; ill-formed syntax makes it emit
\* 'error' and stop; bytes that are no part are skipped.
BusboyWrite(call, item) ==
  IF call.bb # "open" THEN call
  ELSE IF item.t = "bad"
    THEN OnBusboyError(Log([call EXCEPT !.bb = "errored"], "error", <<>>))
  ELSE IF item.t = "raw" THEN call
  ELSE IF item.t = "params" THEN BusboyPairs(call, item.value)
  ELSE BusboyPart(call, item)

\* readable.pipe(bb): the end of the source ends the decoder.
BusboyEnd(call) == IF call.bb = "open" THEN [call EXCEPT !.bb = "ended"] ELSE call

\* readable.pipe(bb): an 'error' of the source is not passed to the decoder,
\* which is neither ended nor destroyed; formData() registers no 'error'
\* listener on the source.  The log notes the error for a pending call.
PipeError(call) ==
  IF call.bb = "open" /\ call.st = "pending"
    THEN Log(call, "sourceError", <<>>) ELSE call

\* formData() (Body.ts 172-238)
\* A Body of body type FormData answers with its initializer; a Body without
\* a stream with an empty FormData; busboy() throws on a content type that is
\* neither multipart nor URL-encoded, which rejects the promise before the
\* pipe; otherwise the stream is piped into the decoder.
CallFormData ==
  /\ Len(calls) < MaxCalls
  /\ Cardinality({i \in DOMAIN calls : calls[i].op = "formData"}) < MaxForms
  /\ \E opts \in OptChoices :
       LET asked == [NewCall("formData") EXCEPT !.opts = opts]
           new == [asked EXCEPT !.got = generateBody]
       IN
       IF bodyType = "FormData"
         THEN Answer([resolve(asked, <<>>) EXCEPT
                        !.obj = TRUE,
                        !.formData = [i \in 1..Len(bodyInit.items) |->
                           Entry(bodyInit.items[i].name, FALSE,
                                 <<bodyInit.items[i].value>>)]])
       ELSE /\ Generated
            /\ IF generateBody = NoBody
                 THEN /\ readable' = readable
                      /\ calls' = Append(calls, resolve(new, <<>>))
               ELSE IF contentType \notin {Multipart, UrlEncoded}
                 THEN /\ readable' = GeneratedReadable
                      /\ calls' = Append(calls,
                                         reject(new, "UnsupportedContentType"))
               ELSE /\ readable' = Resume(GeneratedReadable)
                    /\ calls' = Append(calls,
                         [new EXCEPT !.bb = "open", !.drain = TRUE,
                                     !.limits = MergeLimits(options, opts)])
  /\ Frame

----------------------------------------------------------------------------
\* Events of the Readable.

\* readable.on('data', chunk => chunks.push(chunk)) (Body.ts 130-132)
OnData(call, item) ==
  IF call.listening THEN [call EXCEPT !.chunks = Append(@, item.b)] ELSE call

\* readable.on('end', () => resolve(chunks)) (Body.ts 133-135)
OnEnd(call) == IF call.listening THEN Finish(call, call.chunks) ELSE call

\* readable.on('error', e => reject(e)) (Body.ts 136-138)
OnError(call) == IF call.listening THEN reject(call, "StreamFailure") ELSE call

ReadableData ==
  /\ readable.state = "flowing" /\ readable.todo # <<>>
  /\ readable' = [readable EXCEPT !.todo = Tail(@)]
  /\ calls' = [c \in DOMAIN calls |->
       BusboyWrite(OnData(calls[c], Head(readable.todo)), Head(readable.todo))]
  /\ UNCHANGED <<generatedBody, factoryCalls>>
  /\ Frame

ReadableEnd ==
  /\ readable.state = "flowing" /\ readable.todo = <<>>
  /\ readable' = [readable EXCEPT !.state = "ended"]
  /\ calls' = [c \in DOMAIN calls |-> BusboyEnd(OnEnd(calls[c]))]
  /\ UNCHANGED <<generatedBody, factoryCalls>>
  /\ Frame

ReadableError ==
  /\ readable.state \in {"paused", "flowing"}
  /\ readable' = [readable EXCEPT !.state = "errored"]
  /\ calls' = [c \in DOMAIN calls |-> PipeError(OnError(calls[c]))]
  /\ UNCHANGED <<generatedBody, factoryCalls>>
  /\ Frame

\* A 'data' event of a file stream, delivered on a later tick than the
\* 'file' event that opened the stream.
FileData ==
  /\ \E c \in DOMAIN calls : \E f \in DOMAIN calls[c].files :
       /\ calls[c].files[f].todo # <<>>
       /\ calls' = [calls EXCEPT ![c] = OnFileData(calls[c], f)]
  /\ UNCHANGED <<generatedBody, factoryCalls, readable>>
  /\ Frame

\* The 'close' event of a file stream, once its data was delivered.
FileClose ==
  /\ \E c \in DOMAIN calls : \E f \in DOMAIN calls[c].files :
       /\ calls[c].files[f].todo = <<>>
       /\ ~calls[c].files[f].closed
       /\ calls' = [calls EXCEPT ![c] =
            OnFileClose(Log(calls[c],
                            IF calls[c].files[f].truncated
                              THEN "fileCloseTruncated" ELSE "fileClose",
                            calls[c].files[f].name), f)]
  /\ UNCHANGED <<generatedBody, factoryCalls, readable>>
  /\ Frame

\* The 'close' event of the decoder: after it was ended and its file streams
\* have closed, or after it failed.
BusboyClose ==
  /\ \E c \in DOMAIN calls :
       /\ calls[c].bb \in {"ended", "errored"}
       /\ \A f \in DOMAIN calls[c].files : calls[c].files[f].closed
       /\ calls' = [calls EXCEPT ![c] =
            OnClose(Log([calls[c] EXCEPT !.bb = "closed"], "close", <<>>))]
  /\ UNCHANGED <<generatedBody, factoryCalls, readable>>
  /\ Frame

----------------------------------------------------------------------------
\* Specifications.

\* The state after `new PonyfillBody(init, {formDataLimits: limits})`
\* (Body.ts 48-61); `todo` is what a stream initializer will emit.
Constructed(init, limits, todo) ==
  /\ bodyInit = init
  /\ options = limits
  /\ bodyType = processBodyInit(init).bodyType
  /\ contentType = processBodyInit(init).contentType
  /\ contentLength = processBodyInit(init).contentLength
  /\ bodyUsed = FALSE
  /\ generatedBody = NoBody
  /\ factoryCalls = 0
  /\ readable = IF init.kind \in StreamKinds
                  THEN [state |-> "paused", todo |-> todo] ELSE NoReadable
  /\ calls = <<>>

\* No fetch was made; the Body is observed on its own.
NoFetch == libcurl = FALSE /\ fetches = <<>>

\* In-memory sources of every content, and the four operations on them.
InitMem ==
  \E init \in TextInits(UnitAlphabet, MaxLen) \cup ViewInits(ByteAlphabet, MaxLen)
              \cup ArrayBufferInits(ByteAlphabet, MaxLen) :
    Constructed(init, NoLimits, <<>>) /\ NoFetch

NextMem == CallArrayBuffer \/ CallBuffer \/ CallText \/ CallBlob

SpecMem == InitMem /\ [][NextMem]_vars

\* A Body constructed from any initializer, and every call on it.
Init ==
  \E init \in {NullInit} \cup StreamInits \cup TextInits({49, 65}, 1)
              \cup ViewInits({49}, 1) \cup ArrayBufferInits({49}, 1)
              \cup TypedArrayInits({49}, 1) \cup BlobInits({49}, 1)
              \cup CollectionInits(MaxLen)
              \cup IterableInits(ChunkAlphabet, 1) :
    \E todo \in RawWires : Constructed(init, NoLimits, todo) /\ NoFetch

Next ==
  \/ CallText \/ CallJson \/ CallBuffer \/ CallArrayBuffer \/ CallBlob
  \/ CallFormData \/ GetBody
  \/ ReadableData \/ ReadableEnd \/ ReadableError \/ BusboyClose

Spec == Init /\ [][Next]_vars

\* The Body of a request or response over a stream that carries a multipart
\* body: its owner has set contentType from the content-type header.
InitForm ==
  \E init \in StreamInits, limits \in CtorChoices, todo \in PartWires :
    /\ bodyInit = init
    /\ options = limits
    /\ bodyType = processBodyInit(init).bodyType
    /\ contentType = Multipart
    /\ contentLength = processBodyInit(init).contentLength
    /\ bodyUsed = FALSE
    /\ generatedBody = NoBody
    /\ factoryCalls = 0
    /\ readable = [state |-> "paused", todo |-> todo]
    /\ calls = <<>>
    /\ NoFetch

NextForm ==
  \/ CallFormData
  \/ ReadableData \/ ReadableEnd \/ ReadableError
  \/ FileData \/ FileClose \/ BusboyClose

SpecForm == InitForm /\ [][NextForm]_vars

\* The same Body with the collectors of buffer() and text() called along
\* with formData().
NextBoth == NextForm \/ CallBuffer \/ CallText

SpecBoth == InitForm /\ [][NextBoth]_vars

----------------------------------------------------------------------------
\* Properties.

StreamSourced == bodyInit.kind \in StreamKinds

\* The bytes of what a call resolved with: a text as its UTF-8 bytes.
Bytes(call) ==
  IF call.op \in {"text", "json"} THEN Utf8Encode(call.val) ELSE call.val

RECURSIVE WellFormedUtf8(_)
\* Whether bytes are well-formed UTF-8.
WellFormedUtf8(b) ==
  \/ b = <<>>
  \/ /\ CompleteSeq(b)
     /\ WellFormedUtf8(SubSeq(b, SeqLen(b[1]) + 1, Len(b)))

\* C1: whatever the initializer (an absent one included) and whatever the
\* calls, the stream factory is invoked at most once, and every demand after
\* the first gets the instance the first demand got.
C1_FactoryInvokedAtMostOnce ==
  /\ factoryCalls <= 1
  /\ \A i, j \in DOMAIN calls :
       (i < j /\ calls[i].got # -1 /\ calls[j].got # -1)
         => calls[j].got = calls[i].got

\* C2: on a stream-sourced Body, once one terminal materialization has begun
\* draining the stream, a second terminal materialization call fails: it
\* never resolves, and it is rejected at the latest when the stream is over.
C2_SecondMaterializationFails ==
  \A i, j \in DOMAIN calls :
    (StreamSourced /\ i < j /\ calls[i].drain /\ calls[j].op # "body")
      => /\ calls[j].st # "resolved"
         /\ readable.state \in {"ended", "errored"} => calls[j].st = "rejected"

\* C3: bodyUsed is false after construction and true as soon as a terminal
\* materialization that touches the underlying stream has begun.
C3_BodyUsedSetOnDrain ==
  /\ calls = <<>> => bodyUsed = FALSE
  /\ (\E c \in DOMAIN calls : calls[c].drain) => bodyUsed = TRUE

\* C4: when text() and buffer() are both called on a stream-sourced Body, the
\* second after the first has completed, the second settles with the bytes
\* the first obtained and does not read the source stream again.
C4_SecondCallReusesData ==
  \A i, j \in DOMAIN calls :
    (/\ StreamSourced /\ i < j
     /\ {calls[i].op, calls[j].op} = {"text", "buffer"}
     /\ i \in calls[j].seen)
      => /\ calls[j].st = "resolved"
         /\ Bytes(calls[j]) = Bytes(calls[i])
         /\ ~calls[j].drain

MemOps == {"arrayBuffer", "buffer", "text", "blob"}

\* C5, as claimed: on an in-memory source, arrayBuffer(), buffer(), text()
\* (as UTF-8 bytes) and blob().arrayBuffer() return identical bytes, in every
\* order and repetition.
C5_AllFourAgree ==
  \A i, j \in DOMAIN calls :
    (bodyInit.kind \in InMemoryKinds
     /\ calls[i].op \in MemOps /\ calls[j].op \in MemOps)
      => /\ calls[i].st = "resolved" /\ calls[j].st = "resolved"
         /\ Bytes(calls[i]) = Bytes(calls[j])

\* C5, amended: arrayBuffer(), buffer() and blob().arrayBuffer() return
\* identical bytes in every order and repetition, two text() calls return
\* the same string, and text() as UTF-8 bytes is identical to the others
\* when the source is a text or its bytes are well-formed UTF-8.
C5_AgreeOnWellFormed ==
  \A i, j \in DOMAIN calls :
    (bodyInit.kind \in InMemoryKinds
     /\ calls[i].op \in MemOps /\ calls[j].op \in MemOps)
      => /\ calls[i].st = "resolved" /\ calls[j].st = "resolved"
         /\ calls[i].op = calls[j].op => calls[i].val = calls[j].val
         /\ (/\ calls[i].op # "text"
             /\ \/ calls[j].op # "text"
                \/ bodyInit.kind = "string"
                \/ WellFormedUtf8(calls[i].val))
              => Bytes(calls[i]) = Bytes(calls[j])

\* C5 witness: a Uint8Array one byte into its ArrayBuffer holding the two
\* bytes of U+00E9, read by text() and then by buffer().
C5_Witness ==
  /\ bodyInit.kind = "Uint8Array" /\ bodyInit.off = 1
  /\ Len(calls) = 2
  /\ calls[1].op = "text" /\ calls[1].val = <<233>>
  /\ calls[2].op = "buffer" /\ calls[2].val = <<195, 169>>

\* Events whose handler rejects the promise of formData().
FailEvents ==
  {"fieldName", "fieldValue", "fieldNameValue", "fieldsLimit", "fileLimit",
   "fileCloseTruncated", "filesLimit", "partsLimit", "error"}
\* Events whose handler puts an entry into the FormData.
AddEvents ==
  {"field", "fieldName", "fieldValue", "fieldNameValue", "fileClose",
   "fileCloseTruncated"}
\* The failures of the limits.
LimitErrors == {"FieldNameSize", "FieldSize", "Fields", "FileSize", "Files", "Parts"}

\* Whether no event before the k-th of a call's log was a failure.
FirstFailure(call, k) == \A h \in 1..(k - 1) : call.log[h].ev \notin FailEvents

NameEvents == {"fieldName", "fieldNameValue"}

\* C6, as claimed: once the decoder has reported a field whose name is over
\* fieldNameSize, the promise of formData() is rejected with the
\* field-name-limit failure and stays so, whatever follows.
C6_NameLimitRejects ==
  \A c \in DOMAIN calls : \A k \in DOMAIN calls[c].log :
    calls[c].log[k].ev \in NameEvents
      => calls[c].st = "rejected" /\ calls[c].err = "FieldNameSize"

\* C6, amended: once the decoder has reported a field whose name is over
\* fieldNameSize, the promise of formData() is rejected and never resolves,
\* whatever follows; its failure is the field-name-limit failure unless an
\* earlier event of the same decode had already rejected it.
C6_NameLimitRejectsFirst ==
  \A c \in DOMAIN calls : \A k \in DOMAIN calls[c].log :
    calls[c].log[k].ev \in NameEvents
      => /\ calls[c].st = "rejected"
         /\ FirstFailure(calls[c], k) => calls[c].err = "FieldNameSize"

\* C6 witness: the over-long name was the first failure, another part and
\* the decoder's 'close' followed, and the promise is rejected with it.
C6_Witness ==
  \E c \in DOMAIN calls :
    /\ Len(calls[c].log) >= 3
    /\ calls[c].log[1].ev = "fieldName"
    /\ calls[c].log[Len(calls[c].log)].ev = "close"
    /\ calls[c].st = "rejected" /\ calls[c].err = "FieldNameSize"

\* C7, as claimed: once a file part has crossed fileSize, the promise of
\* formData() is rejected with the file-size-limit failure and never
\* resolves.
C7_FileLimitRejects ==
  \A c \in DOMAIN calls : \A k \in DOMAIN calls[c].log :
    calls[c].log[k].ev = "fileLimit"
      => calls[c].st = "rejected" /\ calls[c].err = "FileSize"

\* C7, amended: once a file part has crossed fileSize, the promise of
\* formData() is rejected and never resolves (with the truncated file or
\* without); its failure is the file-size-limit failure unless an earlier
\* event of the same decode had already rejected it.
C7_FileLimitRejectsFirst ==
  \A c \in DOMAIN calls : \A k \in DOMAIN calls[c].log :
    calls[c].log[k].ev = "fileLimit"
      => /\ calls[c].st = "rejected"
         /\ FirstFailure(calls[c], k) => calls[c].err = "FileSize"

\* C7 witness: the file crossed the limit first, its stream closed truncated,
\* the decoder closed, the FormData holds the truncated file and the
\* promise is rejected with the file-size-limit failure.
C7_Witness ==
  \E c \in DOMAIN calls :
    /\ \E k \in DOMAIN calls[c].log :
         calls[c].log[k].ev = "fileLimit" /\ FirstFailure(calls[c], k)
    /\ \E k \in DOMAIN calls[c].log : calls[c].log[k].ev = "fileCloseTruncated"
    /\ calls[c].log[Len(calls[c].log)].ev = "close"
    /\ \E e \in DOMAIN calls[c].formData : calls[c].formData[e].isFile
    /\ calls[c].st = "rejected" /\ calls[c].err = "FileSize"

\* C8: once formData() has detected a limit violation, no entry is added to
\* the collection, neither by the step that detects it nor by a later one.
C8_NoEntryAfterViolation ==
  [][\A c \in DOMAIN calls :
       (calls'[c].st = "rejected" /\ calls'[c].err \in LimitErrors)
         => calls'[c].formData = calls[c].formData]_vars

\* Whether no event of the source, of a file stream or of the decoder is
\* left to be delivered.
Quiescent ==
  ~ENABLED (ReadableData \/ ReadableEnd \/ ReadableError
            \/ FileData \/ FileClose \/ BusboyClose)

\* C9: when the source stream emits an error while a formData() call is
\* pending, the promise of the call does not resolve, and it is rejected
\* with that error at the latest when no event is left to be delivered.
C9_SourceErrorRejects ==
  \A c \in DOMAIN calls : \A k \in DOMAIN calls[c].log :
    calls[c].log[k].ev = "sourceError"
      => /\ calls[c].st # "resolved"
         /\ Quiescent => calls[c].st = "rejected" /\ calls[c].err = "StreamFailure"

\* The names of the parts whose handler put an entry into the FormData, in
\* the order the entries were put.
PutNames(call) ==
  LET puts == SelectSeq(call.log, LAMBDA e : e.ev \in AddEvents)
  IN [i \in 1..Len(puts) |-> puts[i].name]

\* C10: the collection formData() resolves with holds one entry per decoded
\* part, in insertion order, parts of the same name included.
C10_DuplicatesKept ==
  \A c \in DOMAIN calls :
    (calls[c].op = "formData" /\ calls[c].st = "resolved")
      => [i \in 1..Len(calls[c].formData) |-> calls[c].formData[i].name]
           = PutNames(calls[c])

\* C11: on a Body constructed from a form-data set, formData() resolves with
\* that very set: the call does not ask for the stream (the factory is not
\* invoked, nothing is serialized) and attaches no decoder.
C11_FormDataReturnedDirectly ==
  \A c \in DOMAIN calls :
    (bodyInit.kind = "FormData" /\ calls[c].op = "formData")
      => /\ calls[c].st = "resolved" /\ calls[c].obj
         /\ calls[c].got = -1
         /\ calls[c].bb = "none" /\ ~calls[c].drain

\* The text "a=1&b=2".
A1B2 == <<97, 61, 49, 38, 98, 61, 50>>

\* C12: a Body constructed from the parameter set a=1, b=2 has the
\* URL-encoded content type, and text() resolves to the string "a=1&b=2",
\* not to the parameter-set object.
C12_ParamsTextIsSerialization ==
  (bodyInit.kind = "URLSearchParams" /\ Serialize(bodyInit.items) = A1B2)
    => /\ contentType = UrlEncoded
       /\ \A c \in DOMAIN calls :
            calls[c].op = "text"
              => /\ calls[c].st = "resolved"
                 /\ calls[c].val = A1B2 /\ ~calls[c].obj

\* C13: a Body constructed with null has contentLength 0 or null,
\* contentType null, and `body` returns null on every access, before and
\* after any materialization call.
C13_NullBody ==
  bodyInit.kind = "null"
    => /\ contentLength \in {0, NoLength}
       /\ contentType = NoContentType
       /\ \A c \in DOMAIN calls :
            calls[c].op = "body" => calls[c].val = <<NoBody>>

\* C13 witness: on a Body constructed with null, text() has resolved and a
\* later access of `body` returned null.
C13_Witness ==
  /\ bodyInit.kind = "null" /\ Len(calls) = 2
  /\ calls[1].op = "text" /\ calls[1].st = "resolved"
  /\ calls[2].op = "body" /\ calls[2].val = <<NoBody>>

\* What the decoder makes of a limit: its number, or its default.
Effective(limit) == IF IsNumber(limit) THEN limit ELSE Unset

\* C14, as claimed: the decoder of formData(opts) works with, for every
\* limit name, the per-call number when one is given, otherwise the
\* constructor's number, otherwise its default.
C14_PerCallNumberOverrides ==
  \A c \in DOMAIN calls : \A n \in LimitNames :
    calls[c].bb # "none"
      => Effective(calls[c].limits[n])
           = (IF IsNumber(calls[c].opts[n]) THEN calls[c].opts[n]
              ELSE Effective(options[n]))

\* C14, amended: the limits handed to the decoder are, for every limit name,
\* the per-call entry when the per-call limits have that key (even with the
\* value undefined, which leaves the decoder its default), otherwise the
\* constructor's entry.
C14_PerCallKeyOverrides ==
  \A c \in DOMAIN calls : \A n \in LimitNames :
    calls[c].bb # "none"
      => calls[c].limits[n]
           = (IF calls[c].opts[n] # Unset THEN calls[c].opts[n] ELSE options[n])

\* C14 witness: constructed with fieldNameSize 2 and fieldSize 2, called
\* with fieldSize undefined, the decoder has cut the name of "name"="ccc"
\* and not its value.
C14_Witness ==
  \E c \in DOMAIN calls :
    /\ options = SizeLimits /\ calls[c].opts.fieldSize = Undefined
    /\ calls[c].limits.fieldNameSize = 2
    /\ \E k \in DOMAIN calls[c].log : calls[c].log[k].ev = "fieldName"

\* C15: the chunk collector of a materialization call and the decoder of a
\* formData() call are never both attached to the stream of one Body.
C15_OneReaderAtATime ==
  \A i, j \in DOMAIN calls :
    ~(/\ StreamSourced /\ readable.state \in {"paused", "flowing"}
      /\ calls[i].listening /\ calls[j].bb = "open")

\* The failures the caller of a call is told of.
Reported(call) == IF call.st = "rejected" THEN {call.err} ELSE {}

\* C16: when a field's name and value are both truncated and nothing failed
\* before, formData() reports the field-name violation and the field-value
\* violation.
C16_EveryViolationReported ==
  \A c \in DOMAIN calls : \A k \in DOMAIN calls[c].log :
    (calls[c].log[k].ev = "fieldNameValue" /\ FirstFailure(calls[c], k))
      => {"FieldNameSize", "FieldSize"} \subseteq Reported(calls[c])

\* The failure the handler of an event rejects with.
ErrOf(ev) ==
  IF ev \in NameEvents THEN "FieldNameSize"
  ELSE IF ev = "fieldValue" THEN "FieldSize"
  ELSE IF ev = "fieldsLimit" THEN "Fields"
  ELSE IF ev \in {"fileLimit", "fileCloseTruncated"} THEN "FileSize"
  ELSE IF ev = "filesLimit" THEN "Files"
  ELSE IF ev = "partsLimit" THEN "Parts"
  ELSE "MalformedMultipart"

\* C17: the promise of formData() settles at most once (no step changes the
\* outcome of a settled call), and a call that has seen a failure is
\* rejected with the first failure it has seen, whatever followed.
C17_FirstSettleWins ==
  [][/\ \A c \in DOMAIN calls :
          (calls[c].op = "formData" /\ calls[c].st # "pending")
            => /\ calls'[c].st = calls[c].st
               /\ calls'[c].err = calls[c].err
               /\ calls'[c].val = calls[c].val
     /\ \A c \in DOMAIN calls' : \A k \in DOMAIN calls'[c].log :
          (calls'[c].log[k].ev \in FailEvents /\ FirstFailure(calls'[c], k))
            => /\ calls'[c].st = "rejected"
               /\ calls'[c].err = ErrOf(calls'[c].log[k].ev)]_vars

\* C17 witness: a field over fieldSize, then a file over fileSize, its
\* truncated close and the decoder's close; the call is rejected with the
\* field-size failure.
C17_Witness ==
  \E c \in DOMAIN calls :
    /\ Len(calls[c].log) >= 5
    /\ calls[c].log[1].ev = "fieldValue"
    /\ \E k \in DOMAIN calls[c].log : calls[c].log[k].ev = "fileLimit"
    /\ \E k \in DOMAIN calls[c].log : calls[c].log[k].ev = "fileCloseTruncated"
    /\ calls[c].log[Len(calls[c].log)].ev = "close"
    /\ calls[c].st = "rejected" /\ calls[c].err = "FieldSize"

\* C18: construction does not invoke the factory; every invocation is made
\* for a call that asked for the stream; and the calls that ask are `body`,
\* formData() and the draining operations on a source that is not in-memory.
C18_FactoryOnlyOnDemand ==
  /\ calls = <<>> => factoryCalls = 0
  /\ factoryCalls <= Cardinality({c \in DOMAIN calls : calls[c].got # -1})
  /\ \A c \in DOMAIN calls :
       calls[c].got # -1
         => \/ calls[c].op \in {"body", "formData"}
            \/ bodyInit.kind \notin InMemoryKinds

\* C18 witness: text() and blob() have resolved on a Body constructed from a
\* text, and the factory was not invoked.
C18_Witness ==
  /\ bodyInit.kind = "string" /\ Len(calls) = 2
  /\ calls[1].op = "text" /\ calls[1].st = "resolved"
  /\ calls[2].op = "blob" /\ calls[2].st = "resolved"
  /\ factoryCalls = 0

\* The place of a probe in the order processBodyInit makes them.
Rank(probe) == CHOOSE i \in 1..Len(ProbeOrder) : ProbeOrder[i] = probe

\* The earliest probe an initializer satisfies.
Earliest(init) ==
  CHOOSE p \in Probes(init) : \A q \in Probes(init) : Rank(p) <= Rank(q)

\* C19: the classification of a Body is that of the earliest probe its
\* initializer satisfies: a parameter set is URL-encoded (not form-data, not
\* a generic iterable), a form-data set is multipart (not a generic
\* iterable), a stream is a stream.
C19_EarliestProbeDecides ==
  /\ Class(bodyType, contentType, contentLength)
       = ClassOf(Earliest(bodyInit), bodyInit)
  /\ bodyInit.kind = "URLSearchParams"
       => Earliest(bodyInit) = "sort" /\ contentType = UrlEncoded
  /\ bodyInit.kind = "FormData"
       => Earliest(bodyInit) = "forEach" /\ contentType = Multipart
  /\ bodyInit.kind \in StreamKinds
       => bodyType = bodyInit.kind /\ contentType = NoContentType

\* C19 witness: a Body constructed from the parameter set a=1, b=2, which
\* satisfies three probes, is URL-encoded, and formData() has decoded its
\* two pairs from the stream of its factory.
C19_Witness ==
  /\ bodyInit.kind = "URLSearchParams" /\ Cardinality(Probes(bodyInit)) = 3
  /\ contentType = UrlEncoded
  /\ \E c \in DOMAIN calls :
       /\ calls[c].op = "formData" /\ calls[c].st = "resolved"
       /\ Len(calls[c].formData) = 2

\* The names of the parts of a decode, in the order of the wire.
WireNames(call) ==
  LET parts == SelectSeq(call.log,
                 LAMBDA e : e.ev \in {"file", "field", "fieldName",
                                       "fieldValue", "fieldNameValue"})
  IN [i \in 1..Len(parts) |-> parts[i].name]

\* C20: when the parts of a body have distinct names, the collection
\* formData() resolves with holds their entries in the order of the wire,
\* files and fields alike.
C20_WireOrderKept ==
  \A c \in DOMAIN calls :
    (/\ calls[c].op = "formData" /\ calls[c].st = "resolved"
     /\ \A i, j \in DOMAIN WireNames(calls[c]) :
          i # j => WireNames(calls[c])[i] # WireNames(calls[c])[j])
      => [i \in 1..Len(calls[c].formData) |-> calls[c].formData[i].name]
           = WireNames(calls[c])

\* The events that commit an entry: formData.set runs in the 'field' handler
\* and in the 'close' handler of a file stream.
CloseEvents == {"fileClose", "fileCloseTruncated"}
Commits(call) ==
  SelectSeq(call.log,
            LAMBDA e : e.ev \in CloseEvents
                         \cup {"field", "fieldName", "fieldValue",
                               "fieldNameValue"})

\* The chunks the wire carries for the file part of a name.
FileValue(name) ==
  (CHOOSE p \in PartAlphabet : p.t = "file" /\ p.name = name).value

\* The last commit under a name was the 'close' of a file stream.
FileCommittedLast(call, name) ==
  \E k \in DOMAIN Commits(call) :
    /\ Commits(call)[k].name = name /\ Commits(call)[k].ev \in CloseEvents
    /\ \A j \in DOMAIN Commits(call) :
         Commits(call)[j].name = name => j <= k

----------------------------------------------------------------------------
\* fetchPonyfill (fetch.ts): the dispatch of a request to the reader of its
\* scheme or to a network transport.  A URL is its sequence of characters.

StartsWith(s, prefix) ==
  Len(s) >= Len(prefix) /\ SubSeq(s, 1, Len(prefix)) = prefix
EndsWith(s, suffix) ==
  Len(s) >= Len(suffix) /\ SubSeq(s, Len(s) - Len(suffix) + 1, Len(s)) = suffix

DataPrefix == <<"d", "a", "t", "a", ":">>
FilePrefix == <<"f", "i", "l", "e", ":">>
BASE64_SUFFIX == <<";", "b", "a", "s", "e", "6", "4">>

\* "data:,x", "data:;base64,x", "file:/a", "http:/a" and the relative "dat".
UrlAlphabet ==
  {DataPrefix \o <<",", "x">>,
   DataPrefix \o BASE64_SUFFIX \o <<",", "x">>,
   FilePrefix \o <<"/", "a">>,
   <<"h", "t", "t", "p", ":", "/", "a">>}
RelativeUrl == <<"d", "a", "t">>

\* The first argument of fetchPonyfill: a string, a URL object (which is
\* absolute) or a request.
Infos ==
  [kind : {"string", "URL", "Request"}, url : UrlAlphabet]
    \cup [kind : {"string", "Request"}, url : {RelativeUrl}]

\* new PonyfillRequest(info, init) of Request.js: a request of the url given.
PonyfillRequest(info) == [kind |-> "Request", url |-> info.url]

\* url.substring(5).split(',')[0] (fetch.ts 18)
MimeType(url) ==
  LET rest == SubSeq(url, 6, Len(url))
      commas == {i \in 1..Len(rest) : rest[i] = ","}
  IN IF commas = {} THEN rest
     ELSE SubSeq(rest, 1, (CHOOSE i \in commas : \A j \in commas : i <= j) - 1)

\* getResponseForDataUri (fetch.ts 17-36): a response over a blob for a
\* base64 payload, over the decoded text otherwise.
getResponseForDataUri(url) ==
  IF EndsWith(MimeType(url), BASE64_SUFFIX)
    THEN [by |-> "getResponseForDataUri", body |-> "Blob"]
    ELSE [by |-> "getResponseForDataUri", body |-> "string"]

\* getResponseForFile (fetch.ts 11-15): a response over a read stream.
getResponseForFile(url) == [by |-> "getResponseForFile", body |-> "Readable"]

\* What a call of fetchPonyfill has invoked, in order, and what it returned.
Dispatched(invoked, response) == [invoked |-> invoked, response |-> response]

RECURSIVE fetchPonyfill_CurlFirst(_, _)
\* A dispatch that tests globalThis.libcurl before the scheme.
fetchPonyfill_CurlFirst(info, curl) ==
  IF info.kind = "string" \/ info.kind = "URL"
    THEN LET d == fetchPonyfill_CurlFirst(PonyfillRequest(info), curl)
         IN Dispatched(<<"PonyfillRequest">> \o d.invoked, d.response)
  ELSE IF curl
    THEN Dispatched(<<"fetchCurl">>, [by |-> "fetchCurl", body |-> "network"])
  ELSE IF StartsWith(info.url, DataPrefix)
    THEN Dispatched(<<"getResponseForDataUri">>, getResponseForDataUri(info.url))
  ELSE IF StartsWith(info.url, FilePrefix)
    THEN Dispatched(<<"getResponseForFile">>, getResponseForFile(info.url))
  ELSE Dispatched(<<"fetchNodeHttp">>,
                  [by |-> "fetchNodeHttp", body |-> "network"])

RECURSIVE fetchPonyfill(_, _)
\* fetchPonyfill (fetch.ts 38-60); `curl` is globalThis.libcurl at the call.
\* `typeof info === 'string' || 'href' in info` holds of a string and of a
\* URL object.
fetchPonyfill(info, curl) ==
  IF info.kind = "string" \/ info.kind = "URL"
    THEN LET d == fetchPonyfill(PonyfillRequest(info), curl)
         IN Dispatched(<<"PonyfillRequest">> \o d.invoked, d.response)
  ELSE IF StartsWith(info.url, DataPrefix)
    THEN Dispatched(<<"getResponseForDataUri">>, getResponseForDataUri(info.url))
  ELSE IF StartsWith(info.url, FilePrefix)
    THEN Dispatched(<<"getResponseForFile">>, getResponseForFile(info.url))
  ELSE IF curl
    THEN Dispatched(<<"fetchCurl">>, [by |-> "fetchCurl", body |-> "network"])
  ELSE Dispatched(<<"fetchNodeHttp">>,
                  [by |-> "fetchNodeHttp", body |-> "network"])

\* A call fetchPonyfill(info).
Fetch ==
  /\ Len(fetches) < MaxFetches
  /\ \E info \in Infos :
       fetches' = Append(fetches,
         [info |-> info, libcurl |-> libcurl,
          invoked |-> fetchPonyfill(info, libcurl).invoked,
          response |-> fetchPonyfill(info, libcurl).response])
  /\ UNCHANGED <<bodyInit, options, bodyType, contentType, contentLength,
                 bodyUsed, generatedBody, factoryCalls, readable, calls,
                 libcurl>>

\* The environment installs or removes globalThis.libcurl between calls.
SetLibcurl ==
  /\ libcurl' = ~libcurl
  /\ UNCHANGED <<bodyInit, options, bodyType, contentType, contentLength,
                 bodyUsed, generatedBody, factoryCalls, readable, calls,
                 fetches>>

\* No Body is observed; libcurl is installed or not.
InitFetch ==
  /\ Constructed(NullInit, NoLimits, <<>>)
  /\ libcurl \in BOOLEAN
  /\ fetches = <<>>

NextFetch == Fetch \/ SetLibcurl

SpecFetch == InitFetch /\ [][NextFetch]_vars

\* The handlers a request can be dispatched to, and the network transports.
Handlers ==
  {"getResponseForDataUri", "getResponseForFile", "fetchCurl", "fetchNodeHttp"}
Transports == {"fetchCurl", "fetchNodeHttp"}

\* The handlers among what a fetch invoked.
Handled(f) == SelectSeq(f.invoked, LAMBDA h : h \in Handlers)

\* C22: every fetch is dispatched to exactly one handler; a string or a URL
\* is first wrapped into a request, a request is not; a url that starts
\* with "data:" goes to the data-URI reader and one that starts with "file:"
\* to the file reader, with no transport invoked; any other url goes to
\* libcurl when it is set and to node http otherwise.
C22_OneHandlerByPriority ==
  \A i \in DOMAIN fetches :
    LET f == fetches[i] IN
    /\ Len(Handled(f)) = 1
    /\ f.response.by = Handled(f)[1]
    /\ f.invoked = (IF f.info.kind \in {"string", "URL"}
                      THEN <<"PonyfillRequest">> ELSE <<>>) \o Handled(f)
    /\ StartsWith(f.info.url, DataPrefix)
         => /\ Handled(f) = <<"getResponseForDataUri">>
            /\ \A k \in DOMAIN f.invoked : f.invoked[k] \notin Transports
    /\ StartsWith(f.info.url, FilePrefix)
         => /\ Handled(f) = <<"getResponseForFile">>
            /\ \A k \in DOMAIN f.invoked : f.invoked[k] \notin Transports
    /\ (~StartsWith(f.info.url, DataPrefix) /\ ~StartsWith(f.info.url, FilePrefix))
         => Handled(f) = <<IF f.libcurl THEN "fetchCurl" ELSE "fetchNodeHttp">>

\* C22 witness: with libcurl set, a "data:" url given as a string was
\* wrapped and answered by the data-URI reader, and, after libcurl was
\* removed, a request of an "http:" url went to node http.
C22_Witness ==
  /\ Len(fetches) = 2
  /\ fetches[1].info.kind = "string" /\ fetches[1].libcurl
  /\ StartsWith(fetches[1].info.url, DataPrefix)
  /\ fetches[1].invoked = <<"PonyfillRequest", "getResponseForDataUri">>
  /\ fetches[2].info.kind = "Request" /\ ~fetches[2].libcurl
  /\ fetches[2].invoked = <<"fetchNodeHttp">>

====
